---- MODULE Spec2Model ----
(***************************************************************************)
(* Model of streamlit_app.py: one Streamlit session running main() one     *)
(* render pass at a time against a backend whose responses are arbitrary.  *)
(* Python dictionaries are records, read with Get (dict.get); a JSON value *)
(* that is not an object is the value PyList.  An uncaught exception ends  *)
(* the pass (pc = "crashed"); st.session_state survives it.                *)
(***************************************************************************)
EXTENDS Integers, Sequences, FiniteSets, TLC

MaxUserId == 2
MaxUsers == 2
MaxProjects == 2
MaxSettled == 2

VARIABLES user_id, user_role, chat_messages,
          pc, page, send_button, message,
          calls, inflight, last, users_status,
          rendered, table,
          pre, observed, fetched, settled

vars == <<user_id, user_role, chat_messages, pc, page, send_button, message,
          calls, inflight, last, users_status, rendered, table,
          pre, observed, fetched, settled>>

session == <<user_id, user_role, chat_messages>>

(* ----------------------------- Python values --------------------------- *)

None == -1
PyNone == [t |-> "none"]
PyList == [t |-> "list"]
Dict(d) == [t |-> "dict", v |-> d]
Num(n) == [t |-> "num", n |-> n]

\* dict.get(key, default)
Get(d, key, default) == IF key \in DOMAIN d THEN d[key] ELSE default

\* Python truthiness of None and of a number
Truthy(x) == x.t = "num" /\ x.n # 0

\* result.get("success") used as a condition: an absent key reads as None
Succeeded(d) == Get(d, "success", FALSE)

RECURSIVE SeqsUpTo(_, _)
SeqsUpTo(S, n) ==
    IF n = 0 THEN {<<>>}
    ELSE LET shorter == SeqsUpTo(S, n - 1)
         IN  shorter \cup {Append(s, e) : s \in {q \in shorter : Len(q) = n - 1}, e \in S}

(* ------------------------------- Backend ------------------------------- *)

Roles == {"manager", "executive"}
UserIds == 1..MaxUserId
UserRecords == [id : UserIds, name : {"u"}, role : Roles]
UserLists == SeqsUpTo(UserRecords, MaxUsers)

EstimatedValues == {PyNone, Num(0), Num(120000)}
Projects == {[name |-> "p", status |-> "active"]}
              \cup [name : {"p"}, status : {"active"}, estimated_value : EstimatedValues]
ProjectLists == SeqsUpTo(Projects, MaxProjects)
Statistics == [total_projects |-> 1, total_revenue |-> 120000]

\* What the HTTP exchange can come to: the requests library raises, or a
\* response arrives with a status and a body.
JsonInvalid == [t |-> "invalid"]
Failures == {[kind |-> "no_listener"], [kind |-> "timeout"],
             [kind |-> "other_failure"], [kind |-> "http_error"],
             [kind |-> "malformed_body", body |-> JsonInvalid],
             [kind |-> "malformed_body", body |-> PyList]}
Ok(d) == [kind |-> "ok", body |-> Dict(d)]

UsersBodies ==
    {[success |-> TRUE, users |-> us] : us \in UserLists}
      \cup {[success |-> TRUE], [success |-> FALSE, error |-> "db"],
            [success |-> FALSE], [users |-> <<>>]}
HealthBodies == {[status |-> "ok", version |-> "1"], [success |-> TRUE],
                 [success |-> FALSE, error |-> "down"]}
DashboardBodies ==
    {[success |-> TRUE, statistics |-> Statistics, projects |-> ps] : ps \in ProjectLists}
      \cup {[success |-> TRUE],
            [success |-> FALSE, error |-> "denied"],
            [success |-> FALSE],
            [success |-> FALSE, error |-> "denied", statistics |-> Statistics,
             projects |-> <<[name |-> "p", status |-> "active", estimated_value |-> Num(120000)]>>],
            [statistics |-> Statistics,
             projects |-> <<[name |-> "p", status |-> "active", estimated_value |-> Num(120000)]>>]}
MessageBodies ==
    {[success |-> TRUE, parsed |-> [intent |-> "assignment"], execution |-> [success |-> e]]
        : e \in BOOLEAN}
      \cup {[success |-> TRUE], [success |-> FALSE, error |-> "unparsed"], [success |-> FALSE]}

Responses(bodies) == Failures \cup {Ok(b) : b \in bodies}

(* ------------------------------ api_call ------------------------------- *)

ConnectionErrorText == "Cannot connect to API server. Is it running on port 8000?"
TimeoutText == "API request timed out"
Fail(text) == Dict([success |-> FALSE, error |-> text])

\* str(e) of the exception the catch-all clause receives
ExceptionText(resp) ==
    CASE resp.kind = "http_error" -> "HTTPError"
      [] resp.kind = "other_failure" -> "RequestException"
      [] OTHER -> "JSONDecodeError"

\* response.json(): raises on a body that is not JSON, and otherwise returns
\* whatever JSON value the body holds
JsonRaises(resp) == resp.body = JsonInvalid

api_call(endpoint, method, data, resp) ==
    IF method \notin {"GET", "POST"} THEN Fail("Unknown method")
    ELSE IF resp.kind = "no_listener" THEN Fail(ConnectionErrorText)
    ELSE IF resp.kind = "timeout" THEN Fail(TimeoutText)
    ELSE IF resp.kind \in {"other_failure", "http_error"} THEN Fail(ExceptionText(resp))
    ELSE IF JsonRaises(resp) THEN Fail(ExceptionText(resp))
    ELSE resp.body

IsDict(x) == x.t = "dict"

\* One HTTP request: the path, the id formatted into the path or carried in
\* the JSON body (None when there is none), and the message of the JSON body
Call(method, endpoint, id, text) ==
    [method |-> method, endpoint |-> endpoint, id |-> id, message |-> text]
NoReturn == [resp |-> [kind |-> "none"], ret |-> PyNone, of |-> "none"]
Returned(resp, ret, of) == [resp |-> resp, ret |-> ret, of |-> of]

get_manager_dashboard(manager_id) == Call("GET", "/api/manager/dashboard", manager_id, "")
get_executive_dashboard(executive_id) ==
    Call("GET", "/api/executive/dashboard", executive_id, "")
process_nlp_message(msg, uid) == Call("POST", "/api/mcp/message", uid, msg)
get_users == Call("GET", "/api/users", None, "")
health_check == Call("GET", "/health", None, "")

(* ------------------------------ Rendering ------------------------------ *)

DigitChars == <<"0", "1", "2", "3", "4", "5", "6", "7", "8", "9">>

RECURSIVE Digits(_)
Digits(n) == IF n < 10 THEN <<DigitChars[n + 1]>>
             ELSE Append(Digits(n \div 10), DigitChars[(n % 10) + 1])

RECURSIVE Grouped(_)
Grouped(s) == IF Len(s) <= 3 THEN s
              ELSE Grouped(SubSeq(s, 1, Len(s) - 3)) \o <<",">>
                     \o SubSeq(s, Len(s) - 2, Len(s))

\* f"₹{v:,.0f}" on a non-negative whole number
FormatCurrency(n) == <<"₹">> \o Grouped(Digits(n))
NotAvailable == <<"N", "/", "A">>

\* The "Value" cell of one row of display_projects_table
ValueCell(p) ==
    IF Truthy(Get(p, "estimated_value", PyNone))
    THEN FormatCurrency(Get(p, "estimated_value", Num(0)).n)
    ELSE NotAvailable

display_projects_table(projects) ==
    IF projects = <<>> THEN [shown |-> {"projects_empty"}, rows |-> <<>>]
    ELSE [shown |-> {"projects_table"},
          rows |-> [i \in 1..Len(projects) |->
                      [project |-> projects[i], value |-> ValueCell(projects[i])]]]

\* Label of the "Message History" section
MessageHistory(history) == IF history # <<>> THEN "history_rows" ELSE "history_empty"

(* ----------------------------- Session state --------------------------- *)

Pages == {"Dashboard", "NLP Chat", "About"}
Messages == {"", "hello"}

\* State after initialize_session on a fresh session
Init ==
    /\ user_id = 1
    /\ user_role = "manager"
    /\ chat_messages = <<>>
    /\ pc = "idle"
    /\ page = "none"
    /\ send_button = FALSE
    /\ message = ""
    /\ calls = <<>>
    /\ inflight = 0
    /\ last = NoReturn
    /\ users_status = "none"
    /\ rendered = {}
    /\ table = <<>>
    /\ pre = <<1, "manager", <<>>>>
    /\ observed = {}
    /\ fetched = FALSE
    /\ settled = 0

\* A script run begins only when the previous one has returned or raised
CanRun(at) == at \in {"idle", "done", "crashed"}

\* main() is entered: initialize_session finds its three keys already set
StartPass ==
    /\ CanRun(pc)
    /\ pc' = "sidebar"
    /\ pre' = session
    /\ page' = "none"
    /\ send_button' = FALSE
    /\ message' = ""
    /\ calls' = <<>>
    /\ last' = NoReturn
    /\ users_status' = "none"
    /\ rendered' = {}
    /\ table' = <<>>
    /\ UNCHANGED <<user_id, user_role, chat_messages, inflight, observed, fetched, settled>>

(* -------------------------------- Sidebar ------------------------------ *)

IdsOf(users) == {users[i].id : i \in 1..Len(users)}

\* st.selectbox over the keys of user_options: the values it can return
selectbox(options) == IF options = {} THEN {None} ELSE options

\* next((u for u in users if u["id"] == selected_user_id), None)
HasUser(users, id) == \E i \in 1..Len(users) : users[i].id = id
FirstUser(users, id) ==
    users[CHOOSE i \in 1..Len(users) :
            /\ users[i].id = id
            /\ \A j \in 1..(i - 1) : users[j].id # id]

RoleAfterSelection(users, id, role) ==
    IF HasUser(users, id) THEN FirstUser(users, id).role ELSE role

\* display_sidebar, user profile section
SidebarUsers ==
    /\ pc = "sidebar"
    /\ \E resp \in Responses(UsersBodies) :
         LET c == get_users
             r == api_call(c.endpoint, c.method, c.message, resp)
         IN  /\ calls' = Append(calls, c)
             /\ last' = Returned(resp, r, "users")
             /\ IF ~IsDict(r)
                THEN /\ pc' = "crashed"
                     /\ users_status' = "raised"
                     /\ UNCHANGED <<user_id, user_role, observed, fetched, rendered>>
                ELSE IF Succeeded(r.v)
                THEN LET users == Get(r.v, "users", <<>>)
                     IN  \E selected_user_id \in selectbox(IdsOf(users)) :
                            /\ user_id' = selected_user_id
                            /\ user_role' = RoleAfterSelection(users, selected_user_id, user_role)
                            /\ observed' = observed \cup IdsOf(users)
                            /\ fetched' = TRUE
                            /\ users_status' = "ok"
                            /\ pc' = "nav"
                            /\ UNCHANGED rendered
                ELSE /\ rendered' = rendered \cup {"users_error"}
                     /\ users_status' = "failed"
                     /\ pc' = "nav"
                     /\ UNCHANGED <<user_id, user_role, observed, fetched>>
    /\ UNCHANGED <<chat_messages, page, send_button, message, inflight, table, pre, settled>>

\* if health.get("success") or "status" in health
Connected(health) == Succeeded(health) \/ "status" \in DOMAIN health

\* display_sidebar, navigation and server status sections, and its return
SidebarNav ==
    /\ pc = "nav"
    /\ \E choice \in Pages, resp \in Responses(HealthBodies) :
         LET c == health_check
             r == api_call(c.endpoint, c.method, c.message, resp)
         IN  /\ calls' = Append(calls, c)
             /\ last' = Returned(resp, r, "health")
             /\ IF ~IsDict(r)
                THEN /\ pc' = "crashed"
                     /\ UNCHANGED <<page, rendered>>
                ELSE /\ rendered' = rendered \cup
                          {IF Connected(r.v) THEN "connected" ELSE "disconnected"}
                     /\ page' = choice
                     /\ pc' = "route"
    /\ UNCHANGED <<user_id, user_role, chat_messages, send_button, message, inflight,
                   users_status, table, pre, observed, fetched, settled>>

(* ------------------------------- Dashboard ------------------------------ *)

\* Variant of DashboardCall that ignores the role
DashboardCallManagerOnly(role, id) == get_manager_dashboard(id)

\* main: the dashboard variant chosen by st.session_state.user_role
DashboardCall(role, id) ==
    IF role = "manager" THEN get_manager_dashboard(id) ELSE get_executive_dashboard(id)

DashboardTitle(role) == IF role = "manager" THEN "title_manager" ELSE "title_executive"

\* main, page == "Dashboard": the dashboard function is entered and fetches
RouteDashboard ==
    /\ pc = "route"
    /\ page = "Dashboard"
    /\ calls' = Append(calls, DashboardCall(user_role, user_id))
    /\ rendered' = rendered \cup {DashboardTitle(user_role)}
    /\ pc' = "dash_wait"
    /\ UNCHANGED <<user_id, user_role, chat_messages, page, send_button, message, inflight,
                   last, users_status, table, pre, observed, fetched, settled>>

\* Variant of DashboardFailed that looks for an error field instead
DashboardFailedOnError(result) == "error" \in DOMAIN result

\* if not result.get("success"): st.error(...); return
DashboardFailed(result) == ~Succeeded(result)

\* What either dashboard shows below its title for a successful result
DashboardSections(role, result) ==
    {"metrics"} \cup display_projects_table(Get(result, "projects", <<>>)).shown
      \cup (IF role = "manager" THEN {"revenue_summary", "pending_items"} ELSE {})

\* display_manager_dashboard / display_executive_dashboard after the fetch
DashboardReturn ==
    /\ pc = "dash_wait"
    /\ \E resp \in Responses(DashboardBodies) :
         LET c == calls[Len(calls)]
             r == api_call(c.endpoint, c.method, c.message, resp)
         IN  /\ last' = Returned(resp, r, "dashboard")
             /\ IF ~IsDict(r)
                THEN /\ pc' = "crashed"
                     /\ UNCHANGED <<rendered, table>>
                ELSE IF DashboardFailed(r.v)
                THEN /\ rendered' = rendered \cup {"dashboard_error"}
                     /\ pc' = "done"
                     /\ UNCHANGED table
                ELSE /\ rendered' = rendered \cup DashboardSections(user_role, r.v)
                     /\ table' = display_projects_table(Get(r.v, "projects", <<>>)).rows
                     /\ pc' = "done"
    /\ UNCHANGED <<user_id, user_role, chat_messages, page, send_button, message, calls,
                   inflight, users_status, pre, observed, fetched, settled>>

(* -------------------------------- NLP chat ------------------------------ *)

\* main, page == "NLP Chat"
RouteChat ==
    /\ pc = "route"
    /\ page = "NLP Chat"
    /\ rendered' = rendered \cup {"title_chat"}
    /\ pc' = "chat"
    /\ UNCHANGED <<user_id, user_role, chat_messages, page, send_button, message, calls,
                   inflight, last, users_status, table, pre, observed, fetched, settled>>

\* Variant of ShouldSubmit that does not look at the text
ShouldSubmitAnyText(button, text) == button

\* if send_button and message
ShouldSubmit(button, text) == button /\ text # ""

\* Variant of AfterPostIssued in which the script does not wait for the call
AfterPostIssuedNoWait == "idle"

\* result = process_nlp_message(...) blocks the script until the call returns
AfterPostIssued == "post_wait"

\* display_nlp_chat: the widgets are read; the POST is issued or the history shown
ChatInput ==
    /\ pc = "chat"
    /\ \E text \in Messages, button \in BOOLEAN :
         /\ ShouldSubmit(button, text) => settled < MaxSettled
         /\ message' = text
         /\ send_button' = button
         /\ IF ShouldSubmit(button, text)
            THEN /\ calls' = Append(calls, process_nlp_message(text, user_id))
                 /\ inflight' = inflight + 1
                 /\ pc' = AfterPostIssued
                 /\ UNCHANGED rendered
            ELSE /\ rendered' = rendered \cup {MessageHistory(chat_messages)}
                 /\ pc' = "done"
                 /\ UNCHANGED <<calls, inflight>>
    /\ UNCHANGED <<user_id, user_role, chat_messages, page, last, users_status, table, pre,
                   observed, fetched, settled>>

\* st.session_state.chat_messages once a submission has been displayed
HistoryAfter(history, text, result) == history

\* What display_nlp_chat shows for the result of a submission
ResultSections(result) ==
    IF Succeeded(result)
    THEN {"chat_success", "parsed_intent", "entities"} \cup
           (IF Succeeded(Get(result, "execution", [success |-> FALSE]))
            THEN {"execution_result"} ELSE {})
    ELSE {"chat_error"}

\* display_nlp_chat after the POST has returned
PostReturn ==
    /\ pc = "post_wait"
    /\ \E resp \in Responses(MessageBodies) :
         LET c == calls[Len(calls)]
             r == api_call(c.endpoint, c.method, c.message, resp)
         IN  /\ last' = Returned(resp, r, "message")
             /\ inflight' = inflight - 1
             /\ settled' = settled + 1
             /\ IF ~IsDict(r)
                THEN /\ pc' = "crashed"
                     /\ UNCHANGED <<rendered, chat_messages>>
                ELSE /\ chat_messages' = HistoryAfter(chat_messages, message, r.v)
                     /\ rendered' = rendered \cup ResultSections(r.v)
                                       \cup {MessageHistory(chat_messages')}
                     /\ pc' = "done"
    /\ UNCHANGED <<user_id, user_role, page, send_button, message, calls, users_status,
                   table, pre, observed, fetched>>

\* main, page == "About"
RouteAbout ==
    /\ pc = "route"
    /\ page = "About"
    /\ rendered' = rendered \cup {"about"}
    /\ pc' = "done"
    /\ UNCHANGED <<user_id, user_role, chat_messages, page, send_button, message, calls,
                   inflight, last, users_status, table, pre, observed, fetched, settled>>

Next ==
    \/ StartPass
    \/ SidebarUsers
    \/ SidebarNav
    \/ RouteDashboard
    \/ DashboardReturn
    \/ RouteChat
    \/ ChatInput
    \/ PostReturn
    \/ RouteAbout

Spec == Init /\ [][Next]_vars

(* -------------------------------- Properties ---------------------------- *)

IsPost(c) == c.method = "POST"
PostCalls == SelectSeq(calls, IsPost)
IsDashboardCall(c) == c.endpoint \in {"/api/manager/dashboard", "/api/executive/dashboard"}
DashCalls == SelectSeq(calls, IsDashboardCall)
PassEnded == pc \in {"done", "crashed"}

\* C1: every settled submission has appended exactly one record, so the
\* history holds as many records as submissions have settled.
C1_HistoryHoldsEverySettled == Len(chat_messages) = settled

C3_ApiCallReturnsResult ==
    last.of # "none" =>
        /\ IsDict(last.ret)
        /\ last.resp.kind # "ok" =>
             /\ Get(last.ret.v, "success", TRUE) = FALSE
             /\ Get(last.ret.v, "error", "") # ""

\* C4: active_user_id is the id of a user seen in a successful user-list
\* fetch, or the default 1 while no fetch has succeeded.
C4_ActiveUserObserved == user_id \in observed \/ (~fetched /\ user_id = 1)

\* C5: a step that changes active_user_id, or that changes active_role,
\* leaves active_role equal to the role of the record with the new
\* active_user_id in the user list fetched by that step.
C5_RoleFollowsUser ==
    [][(user_id' # user_id \/ user_role' # user_role) =>
          /\ last'.of = "users"
          /\ IsDict(last'.ret)
          /\ LET users == Get(last'.ret.v, "users", <<>>)
             IN  \E i \in 1..Len(users) :
                    users[i].id = user_id' /\ users[i].role = user_role']_vars

\* C6: a pass has issued exactly one POST, to /api/mcp/message with the
\* message and the active user id, when Send was pressed with a non-empty
\* message, and no POST otherwise, whatever the outcome of the call.
C6_AtMostOncePost ==
    PostCalls = IF send_button /\ message # ""
                THEN <<[method |-> "POST", endpoint |-> "/api/mcp/message",
                        id |-> user_id, message |-> message]>>
                ELSE <<>>

C6_Witness ==
    /\ pc = "done"
    /\ last.of = "message"
    /\ last.resp.kind = "timeout"
    /\ Len(PostCalls) = 1

\* C7: a dashboard result whose success is false or absent shows the error
\* and neither metrics nor project rows, whatever else the result carries.
C7_FailedDashboardShowsOnlyError ==
    (last.of = "dashboard" /\ IsDict(last.ret) /\ ~Get(last.ret.v, "success", FALSE)) =>
        /\ pc = "done"
        /\ "dashboard_error" \in rendered
        /\ rendered \cap {"metrics", "projects_table", "projects_empty",
                          "revenue_summary", "pending_items"} = {}
        /\ table = <<>>

C7_Witness ==
    /\ last.of = "dashboard"
    /\ IsDict(last.ret)
    /\ "success" \notin DOMAIN last.ret.v
    /\ "projects" \in DOMAIN last.ret.v
    /\ "dashboard_error" \in rendered

\* C8: a pass whose user-list fetch failed ends with the session unchanged,
\* the health check issued and the selected page routed.
C8_UsersFailureIsLocal ==
    (PassEnded /\ users_status \in {"failed", "raised"}) =>
        /\ session = pre
        /\ \E i \in 1..Len(calls) : calls[i].endpoint = "/health"
        /\ page \in Pages

\* C9: in the projects table a missing estimated_value shows N/A, the value
\* 0 shows the currency amount ₹0, and 120000 shows ₹120,000.
C9_ValueCells ==
    \A i \in 1..Len(table) :
        LET p == table[i].project
            v == Get(p, "estimated_value", PyNone)
        IN  /\ v = PyNone => table[i].value = <<"N", "/", "A">>
            /\ v = Num(0) => table[i].value = <<"₹", "0">>
            /\ v = Num(120000) =>
                 table[i].value = <<"₹", "1", "2", "0", ",", "0", "0", "0">>

\* C10: once main has the selected page, the pass has issued exactly one
\* dashboard call when the page is Dashboard, to the manager endpoint for a
\* manager and the executive endpoint for an executive, with the active
\* user id; and no dashboard call for NLP Chat or About.
C10_Routing ==
    IF page = "Dashboard" /\ pc # "route"
    THEN /\ Len(DashCalls) = 1
         /\ DashCalls[1].method = "GET"
         /\ DashCalls[1].id = user_id
         /\ user_role = "manager" => DashCalls[1].endpoint = "/api/manager/dashboard"
         /\ user_role = "executive" => DashCalls[1].endpoint = "/api/executive/dashboard"
    ELSE DashCalls = <<>>

C10_Witness ==
    /\ page = "Dashboard"
    /\ user_role = "executive"
    /\ pc = "done"
    /\ Len(DashCalls) = 1

====
